---- MODULE Spec2Model ----
(***************************************************************************)
(* PlaybookNews server: session guards (auth.js), credential verification  *)
(* (getReqs/loginUser.js), account registration (setReqs/createUser.js)    *)
(* and the routes of server.js that compose them.                          *)
(*                                                                         *)
(* JavaScript values are records [t, v]: t is the result of typeof (with   *)
(* "null" and "array" kept apart from plain objects), v the value's text   *)
(* as a sequence of one-character strings.  One request is one step.       *)
(***************************************************************************)
EXTENDS Integers, Sequences, FiniteSets, TLC

VARIABLES users, secret, now, jar, req, res, loggedOut

vars == <<users, secret, now, jar, req, res, loggedOut>>

(* ------------------------------ bounds --------------------------------- *)

MaxUsers == 2
MaxTime == 1
MaxJar == 1

(* --------------------------- JavaScript values ------------------------- *)

Str(s) == [t |-> "string", v |-> s]
Undefined == [t |-> "undefined", v |-> <<>>]
Num7 == [t |-> "number", v |-> <<"7">>]
EmptyObject == [t |-> "object", v |-> <<>>]
TeamObject == [t |-> "object", v |-> <<"t", "e", "a", "m">>]
Null == [t |-> "null", v |-> <<>>]
ArrayValue == [t |-> "array", v |-> <<>>]

\* typeof x
TypeOf(x) == IF x.t \in {"null", "array"} THEN "object" ELSE x.t

IsString(x) == x.t = "string"

\* !x
Falsy(x) ==
    \/ x.t \in {"undefined", "null"}
    \/ (x.t = "string" /\ x.v = <<>>)
    \/ (x.t = "number" /\ x.v = <<"0">>)
    \/ (x.t = "boolean" /\ x.v = <<"f">>)

IsSpace(c) == c = " "

\* String.prototype.toLowerCase, on the letters the inputs use
LowerChar(c) ==
    IF c = "A" THEN "a" ELSE IF c = "B" THEN "b" ELSE c

toLowerCase(s) == [i \in 1..Len(s) |-> LowerChar(s[i])]

RECURSIVE trimStart(_)
trimStart(s) ==
    IF s # <<>> /\ IsSpace(Head(s)) THEN trimStart(Tail(s)) ELSE s

RECURSIVE trimEnd(_)
trimEnd(s) ==
    IF s # <<>> /\ IsSpace(s[Len(s)]) THEN trimEnd(SubSeq(s, 1, Len(s) - 1)) ELSE s

\* String.prototype.trim
trim(s) == trimEnd(trimStart(s))

\* /^[^\s@]+@[^\s@]+\.[^\s@]+$/.test(s)
emailRegexTest(s) ==
    \E i \in 1..Len(s) : \E j \in 1..Len(s) :
        /\ s[i] = "@"
        /\ i > 1
        /\ j > i + 1
        /\ j < Len(s)
        /\ s[j] = "."
        /\ \A k \in 1..Len(s) : k # i => (~IsSpace(s[k]) /\ s[k] # "@")

(* ------------------------------- tokens -------------------------------- *)

\* process.env.JWT_SECRET: unset, or the key the server signs with
NoSecret == ""
ServerKey == "k1"
OtherKey == "k2"

\* expiresIn: "1d", in days
TokenTTL == 1

\* req.cookies.auth: absent, the empty string, a string that is no JWT, or a JWT
Absent == [kind |-> "absent", userId |-> 0, username |-> <<>>, key |-> "", exp |-> 0]
Empty == [kind |-> "empty", userId |-> 0, username |-> <<>>, key |-> "", exp |-> 0]
Malformed == [kind |-> "malformed", userId |-> 0, username |-> <<>>, key |-> "", exp |-> 0]

\* jwt.sign(payload, key, {expiresIn: "1d"}) at time t
jwtSign(userId, username, key, t) ==
    [kind |-> "jwt", userId |-> userId, username |-> username, key |-> key,
     exp |-> t + TokenTTL]

\* jwt.verify(token, key) at time t returns the claims (TRUE) or throws (FALSE)
jwtVerify(token, key, t) ==
    /\ token.kind = "jwt"
    /\ token.key = key
    /\ t < token.exp

\* !token
NoToken(token) == token.kind \in {"absent", "empty"}

NoUser == [id |-> 0, username |-> <<>>]

(* ------------------------------ responses ------------------------------ *)

NoReq == [route |-> "", cookie |-> Absent, username |-> Undefined,
          password |-> Undefined, email |-> Undefined, preferences |-> Undefined,
          storeOk |-> TRUE]

\* status 0: no response has been sent
NoRes == [status |-> 0, error |-> "", message |-> "", redirect |-> "",
          sendFile |-> "", clearCookie |-> FALSE, setCookie |-> Absent,
          handlerRuns |-> 0, user |-> NoUser, userId |-> 0,
          username |-> Undefined, preferences |-> Undefined]

Json(status, error) == [NoRes EXCEPT !.status = status, !.error = error]
Redirect(path) == [NoRes EXCEPT !.status = 302, !.redirect = path]

(* ------------------------------- auth.js ------------------------------- *)

\* A guard's decision: next() with req.user, or the response it sent.
GuardNext(user, clear) == [next |-> TRUE, user |-> user,
                           res |-> [NoRes EXCEPT !.clearCookie = clear]]
GuardStop(r) == [next |-> FALSE, user |-> NoUser, res |-> r]

requireAuth_NoVerify(token, t) ==
    IF secret = NoSecret THEN GuardStop(Json(500, "Server misconfigured"))
    ELSE IF NoToken(token) THEN GuardStop(Json(401, "Unauthorized"))
    ELSE IF token.kind = "jwt"
    THEN GuardNext([id |-> token.userId, username |-> token.username], FALSE)
    ELSE GuardStop([Json(401, "Unauthorized") EXCEPT !.clearCookie = TRUE])

requireAuth_TokenFirst(token, t) ==
    IF NoToken(token) THEN GuardStop(Json(401, "Unauthorized"))
    ELSE IF secret = NoSecret THEN GuardStop(Json(500, "Server misconfigured"))
    ELSE IF jwtVerify(token, secret, t)
    THEN GuardNext([id |-> token.userId, username |-> token.username], FALSE)
    ELSE GuardStop([Json(401, "Unauthorized") EXCEPT !.clearCookie = TRUE])

requireAuth_CheckStore(token, t) ==
    IF secret = NoSecret THEN GuardStop(Json(500, "Server misconfigured"))
    ELSE IF NoToken(token) THEN GuardStop(Json(401, "Unauthorized"))
    ELSE IF /\ jwtVerify(token, secret, t)
            /\ \E i \in 1..Len(users) : /\ users[i].id = token.userId
                                        /\ users[i].username = token.username
    THEN GuardNext([id |-> token.userId, username |-> token.username], FALSE)
    ELSE GuardStop([Json(401, "Unauthorized") EXCEPT !.clearCookie = TRUE])

requireAuth_Revoked(token, t) ==
    IF secret = NoSecret THEN GuardStop(Json(500, "Server misconfigured"))
    ELSE IF NoToken(token) THEN GuardStop(Json(401, "Unauthorized"))
    ELSE IF jwtVerify(token, secret, t) /\ token \notin loggedOut
    THEN GuardNext([id |-> token.userId, username |-> token.username], FALSE)
    ELSE GuardStop([Json(401, "Unauthorized") EXCEPT !.clearCookie = TRUE])

requireAuth(token, t) ==
    IF secret = NoSecret THEN GuardStop(Json(500, "Server misconfigured"))
    ELSE IF NoToken(token) THEN GuardStop(Json(401, "Unauthorized"))
    ELSE IF jwtVerify(token, secret, t)
    THEN GuardNext([id |-> token.userId, username |-> token.username], FALSE)
    ELSE GuardStop([Json(401, "Unauthorized") EXCEPT !.clearCookie = TRUE])

requireAuthPage_NoClear(token, t) ==
    IF NoToken(token) \/ secret = NoSecret THEN GuardStop(Redirect("/login"))
    ELSE IF jwtVerify(token, secret, t)
    THEN GuardNext([id |-> token.userId, username |-> token.username], FALSE)
    ELSE GuardStop(Redirect("/login"))

requireAuthPage(token, t) ==
    IF NoToken(token) \/ secret = NoSecret THEN GuardStop(Redirect("/login"))
    ELSE IF jwtVerify(token, secret, t)
    THEN GuardNext([id |-> token.userId, username |-> token.username], FALSE)
    ELSE GuardStop([Redirect("/login") EXCEPT !.clearCookie = TRUE])

reverseAuthPage_Swapped(token, t) ==
    IF NoToken(token) \/ secret = NoSecret THEN GuardNext(NoUser, FALSE)
    ELSE IF jwtVerify(token, secret, t)
    THEN GuardNext(NoUser, FALSE)
    ELSE GuardStop([Redirect("/") EXCEPT !.clearCookie = TRUE])

reverseAuthPage(token, t) ==
    IF NoToken(token) \/ secret = NoSecret THEN GuardNext(NoUser, FALSE)
    ELSE IF jwtVerify(token, secret, t)
    THEN GuardStop(Redirect("/"))
    ELSE GuardNext(NoUser, TRUE)

reverseAuth_NoClear(token, t) ==
    IF NoToken(token) \/ secret = NoSecret THEN GuardNext(NoUser, FALSE)
    ELSE IF jwtVerify(token, secret, t)
    THEN GuardStop(Json(400, "Already logged in"))
    ELSE GuardNext(NoUser, FALSE)

reverseAuth(token, t) ==
    IF NoToken(token) \/ secret = NoSecret THEN GuardNext(NoUser, FALSE)
    ELSE IF jwtVerify(token, secret, t)
    THEN GuardStop(Json(400, "Already logged in"))
    ELSE GuardNext(NoUser, TRUE)

(* -------------------------------- store -------------------------------- *)

\* A document of the users collection; id 0 stands for "no document" (null).
NoRecord == [id |-> 0, username |-> <<>>, password |-> <<>>, email |-> <<>>,
             preferences |-> Undefined, createdAt |-> 0]

RECURSIVE findOne(_, _)
\* db.collection("users").findOne({username: name}): the first match, or null
findOne(db, name) ==
    IF db = <<>> THEN NoRecord
    ELSE IF Head(db).username = name THEN Head(db)
    ELSE findOne(Tail(db), name)

\* the unique indexes on username and email: insertOne fails with code 11000
DuplicateKey(db, doc) ==
    \E i \in 1..Len(db) : db[i].username = doc.username \/ db[i].email = doc.email

\* the unique index on username, for updateOne on the document with this id
DuplicateUsername(db, id, name) ==
    \E i \in 1..Len(db) : db[i].id # id /\ db[i].username = name

\* updateOne({_id: id}, {$set: {preferences}}): no document matched changes none
SetPreferences(db, id, preferences) ==
    [i \in 1..Len(db) |->
        IF db[i].id = id THEN [db[i] EXCEPT !.preferences = preferences] ELSE db[i]]

\* updateOne({_id: id}, {$set: {username}})
SetUsername(db, id, name) ==
    [i \in 1..Len(db) |->
        IF db[i].id = id THEN [db[i] EXCEPT !.username = name] ELSE db[i]]

\* bcrypt.hash(password, SALT_ROUNDS): a digest that is not the plaintext
encryptPassword(password) == <<"$">> \o password

\* bcrypt.compare(password, hash)
bcryptCompare(password, hash) == hash = <<"$">> \o password

(* ---------------------------- loginUser.js ----------------------------- *)

signAuthToken(user, t) ==
    IF secret = NoSecret
    THEN [threw |-> TRUE, error |-> "Err creating auth token", token |-> Absent]
    ELSE [threw |-> FALSE, error |-> "",
          token |-> jwtSign(user.id, user.username, secret, t)]

LoginResult(threw, error, passed, message, cookie, preferences) ==
    [threw |-> threw, error |-> error, passed |-> passed, message |-> message,
     chocolateChipCookie |-> cookie, preferences |-> preferences]

LoginFailed(message) == LoginResult(FALSE, "", FALSE, message, Absent, Undefined)
LoginThrew(error) == LoginResult(TRUE, error, FALSE, "", Absent, Undefined)

loginUser_UserNotFound(db, username, password, storeOk, t) ==
    IF ~IsString(username) \/ ~IsString(password)
    THEN LoginFailed("Username and password must be strings")
    ELSE IF ~storeOk THEN LoginThrew("store error")
    ELSE LET user == findOne(db, trim(username.v))
         IN IF user.id = 0 THEN LoginFailed("User not found")
            ELSE IF ~bcryptCompare(password.v, user.password)
            THEN LoginFailed("Invalid username or password")
            ELSE LET signed == signAuthToken(user, t)
                 IN IF signed.threw THEN LoginThrew(signed.error)
                    ELSE LoginResult(FALSE, "", TRUE, "", signed.token,
                                     user.preferences)

loginUser(db, username, password, storeOk, t) ==
    IF ~IsString(username) \/ ~IsString(password)
    THEN LoginFailed("Username and password must be strings")
    ELSE IF ~storeOk THEN LoginThrew("store error")
    ELSE LET user == findOne(db, trim(username.v))
         IN IF user.id = 0 THEN LoginFailed("Invalid username or password")
            ELSE IF ~bcryptCompare(password.v, user.password)
            THEN LoginFailed("Invalid username or password")
            ELSE LET signed == signAuthToken(user, t)
                 IN IF signed.threw THEN LoginThrew(signed.error)
                    ELSE LoginResult(FALSE, "", TRUE, "", signed.token,
                                     user.preferences)

(* ---------------------------- createUser.js ---------------------------- *)

NoError == ""

validate_PasswordFirst(username, password, email) ==
    IF Falsy(password) \/ ~IsString(password) \/ Len(password.v) < 6
    THEN "Password must be at least 6 characters long."
    ELSE IF Falsy(username) \/ ~IsString(username) \/ Len(username.v) < 3
    THEN "Username must be at least 3 characters long."
    ELSE IF Falsy(email) \/ ~IsString(email) \/ ~emailRegexTest(email.v)
    THEN "Invalid email address."
    ELSE NoError

validate(username, password, email) ==
    IF Falsy(username) \/ ~IsString(username) \/ Len(username.v) < 3
    THEN "Username must be at least 3 characters long."
    ELSE IF Falsy(password) \/ ~IsString(password) \/ Len(password.v) < 6
    THEN "Password must be at least 6 characters long."
    ELSE IF Falsy(email) \/ ~IsString(email) \/ ~emailRegexTest(email.v)
    THEN "Invalid email address."
    ELSE NoError

CreateResult(threw, message, insertedId, db) ==
    [threw |-> threw, message |-> message, insertedId |-> insertedId, users |-> db]

\* createUser(body) on store db at time t: what it throws or returns, and the
\* store it leaves.  The binding `result` is scoped to the try block, so the
\* return statement after it throws a ReferenceError once insertOne succeeded.
createUser(db, username, password, email, preferences, storeOk, t) ==
    LET err == validate(username, password, email)
        user == [id |-> Len(db) + 1,
                 username |-> toLowerCase(username.v),
                 password |-> encryptPassword(password.v),
                 email |-> toLowerCase(email.v),
                 preferences |-> IF preferences.t = "undefined" THEN EmptyObject
                                 ELSE preferences,
                 createdAt |-> t]
    IN IF err # NoError THEN CreateResult(TRUE, err, 0, db)
       ELSE IF ~storeOk
       THEN CreateResult(TRUE, "Error creating user: store error", 0, db)
       ELSE IF DuplicateKey(db, user)
       THEN CreateResult(TRUE, "Username or email already exists.", 0, db)
       ELSE CreateResult(TRUE, "result is not defined", 0, Append(db, user))

(* ------------------------------ server.js ------------------------------ *)

\* A rejected promise of an async handler that has no try/catch: Express 4
\* leaves the request unanswered (status 0), Express 5 answers 500.
UnhandledStatus == {0, 500}

Request(route, cookie, username, password, email, preferences, storeOk) ==
    [route |-> route, cookie |-> cookie, username |-> username,
     password |-> password, email |-> email, preferences |-> preferences,
     storeOk |-> storeOk]

\* The server takes one request at a time to its response (a handler's awaits
\* interleave with nothing that it reads), at one reading of the clock.
Idle == req = NoReq

\* app.post("/api/login", reverseAuth, ...)
PostApiLogin(cookie, username, password, storeOk) ==
    LET g == reverseAuth(cookie, now)
        result == loginUser(users, username, password, storeOk, now)
        ran == [g.res EXCEPT !.handlerRuns = 1]
    IN /\ Idle
       /\ req' = Request("POST /api/login", cookie, username, password,
                         Undefined, Undefined, storeOk)
       /\ UNCHANGED <<users, secret, now, jar, loggedOut>>
       /\ IF ~g.next THEN res' = g.res
          ELSE IF result.threw
          THEN /\ \E s \in UnhandledStatus :
                    res' = [ran EXCEPT !.status = s,
                                       !.error = IF s = 0 THEN "" ELSE result.error]
          ELSE IF ~result.passed
          THEN res' = [ran EXCEPT !.status = 401, !.error = result.message]
          ELSE /\ res' = [ran EXCEPT !.status = 200,
                                     !.setCookie = result.chocolateChipCookie,
                                     !.username = username,
                                     !.preferences = result.preferences]

\* app.post("/api/user", reverseAuth, ...)
PostApiUser(cookie, username, password, email, preferences, storeOk) ==
    LET g == reverseAuth(cookie, now)
        created == createUser(users, username, password, email, preferences,
                              storeOk, now)
        login == loginUser(created.users, username, password, storeOk, now)
        ran == [g.res EXCEPT !.handlerRuns = 1]
    IN /\ Idle
       /\ req' = Request("POST /api/user", cookie, username, password, email,
                         preferences, storeOk)
       /\ UNCHANGED <<secret, now, jar, loggedOut>>
       /\ IF ~g.next THEN res' = g.res /\ users' = users
          ELSE /\ users' = created.users
               /\ Len(users') <= MaxUsers
               /\ IF created.threw
                  THEN res' = [ran EXCEPT !.status = 400, !.error = created.message]
                  ELSE IF login.threw
                  THEN res' = [ran EXCEPT !.status = 400, !.error = login.error]
                  ELSE IF ~login.passed
                  THEN res' = [ran EXCEPT !.status = 400, !.error = login.message]
                  ELSE /\ res' = [ran EXCEPT !.status = 201,
                                             !.setCookie = login.chocolateChipCookie,
                                             !.userId = created.insertedId,
                                             !.username = username,
                                             !.preferences = login.preferences]

\* app.get("/api/me", requireAuth, ...)
GetApiMe(cookie, storeOk) ==
    LET g == requireAuth(cookie, now)
        ran == [g.res EXCEPT !.handlerRuns = 1, !.user = g.user]
        user == findOne(users, g.user.username)
    IN /\ Idle
       /\ req' = Request("GET /api/me", cookie, Undefined, Undefined, Undefined,
                         Undefined, storeOk)
       /\ UNCHANGED <<users, secret, now, jar, loggedOut>>
       /\ IF ~g.next THEN res' = g.res
          ELSE IF g.user.username = <<>>
          THEN res' = [ran EXCEPT !.status = 401, !.error = "not logged in"]
          ELSE IF ~storeOk
          THEN res' = [ran EXCEPT !.status = 500, !.error = "server error"]
          ELSE IF user.id = 0
          THEN res' = [ran EXCEPT !.status = 401, !.error = "not logged in"]
          ELSE res' = [ran EXCEPT !.status = 200,
                                  !.username = Str(user.username),
                                  !.preferences =
                                      IF user.preferences.t \in {"undefined", "null"}
                                      THEN EmptyObject ELSE user.preferences]

\* app.get("/settings", requireAuthPage, ...)
GetSettings(cookie, storeOk) ==
    LET g == requireAuthPage(cookie, now)
        ran == [g.res EXCEPT !.handlerRuns = 1, !.user = g.user]
        user == findOne(users, g.user.username)
    IN /\ Idle
       /\ req' = Request("GET /settings", cookie, Undefined, Undefined, Undefined,
                         Undefined, storeOk)
       /\ UNCHANGED <<users, secret, now, jar, loggedOut>>
       /\ IF ~g.next THEN res' = g.res
          ELSE IF ~storeOk \/ user.id = 0
          THEN res' = [ran EXCEPT !.status = 302, !.redirect = "/"]
          ELSE res' = [ran EXCEPT !.status = 200, !.sendFile = "settings.html"]

\* app.get("/login", reverseAuthPage, ...)
GetLogin(cookie) ==
    LET g == reverseAuthPage(cookie, now)
        ran == [g.res EXCEPT !.handlerRuns = 1]
    IN /\ Idle
       /\ req' = Request("GET /login", cookie, Undefined, Undefined, Undefined,
                         Undefined, TRUE)
       /\ UNCHANGED <<users, secret, now, jar, loggedOut>>
       /\ IF ~g.next THEN res' = g.res
          ELSE IF cookie.kind \notin {"absent", "empty"}
          THEN res' = [ran EXCEPT !.status = 302, !.redirect = "/"]
          ELSE res' = [ran EXCEPT !.status = 200, !.sendFile = "login.html"]

PostApiPreferences_ByUsername(cookie, preferences, storeOk) ==
    LET g == requireAuth(cookie, now)
        ran == [g.res EXCEPT !.handlerRuns = 1, !.user = g.user]
    IN /\ Idle
       /\ req' = Request("POST /api/preferences", cookie, Undefined, Undefined,
                         Undefined, preferences, storeOk)
       /\ UNCHANGED <<secret, now, jar, loggedOut>>
       /\ IF ~g.next THEN res' = g.res /\ users' = users
          ELSE IF TypeOf(preferences) # "object"
          THEN /\ res' = [ran EXCEPT !.status = 400,
                                     !.error = "Invalid preferences format"]
               /\ users' = users
          ELSE IF ~storeOk
          THEN /\ res' = [ran EXCEPT !.status = 500, !.error = "Server error"]
               /\ users' = users
          ELSE /\ res' = [ran EXCEPT !.status = 200,
                                     !.message = "Preferences updated successfully"]
               /\ users' = [i \in 1..Len(users) |->
                               IF users[i].username = g.user.username
                               THEN [users[i] EXCEPT !.preferences = preferences]
                               ELSE users[i]]

\* app.get("/pref", requireAuthPage, ...)
GetPref(cookie, storeOk) ==
    LET g == requireAuthPage(cookie, now)
        ran == [g.res EXCEPT !.handlerRuns = 1, !.user = g.user]
        user == findOne(users, g.user.username)
    IN /\ Idle
       /\ req' = Request("GET /pref", cookie, Undefined, Undefined, Undefined,
                         Undefined, storeOk)
       /\ UNCHANGED <<users, secret, now, jar, loggedOut>>
       /\ IF ~g.next THEN res' = g.res
          ELSE IF ~storeOk \/ user.id = 0 \/ user.preferences = TeamObject
          THEN res' = [ran EXCEPT !.status = 302, !.redirect = "/"]
          ELSE res' = [ran EXCEPT !.status = 200, !.sendFile = "pref.html"]

\* app.get("/settings.html", requireAuthPage, ...)
GetSettingsHtml(cookie) ==
    LET g == requireAuthPage(cookie, now)
        ran == [g.res EXCEPT !.handlerRuns = 1, !.user = g.user]
    IN /\ Idle
       /\ req' = Request("GET /settings.html", cookie, Undefined, Undefined,
                         Undefined, Undefined, TRUE)
       /\ UNCHANGED <<users, secret, now, jar, loggedOut>>
       /\ IF ~g.next THEN res' = g.res
          ELSE res' = [ran EXCEPT !.status = 200, !.sendFile = "settings.html"]

\* app.get("/dash.html", ...)
GetDashHtml(cookie) ==
    /\ Idle
    /\ req' = Request("GET /dash.html", cookie, Undefined, Undefined, Undefined,
                      Undefined, TRUE)
    /\ UNCHANGED <<users, secret, now, jar, loggedOut>>
    /\ res' = [Redirect("/dashboard") EXCEPT !.handlerRuns = 1]

\* A request path, as the characters of the request line: "%2E" is one escape.
SettingsPath == <<"/", "settings">>
SettingsHtmlPath == <<"/", "settings", ".", "html">>
SettingsEscapedPath == <<"/", "settings", "%2E", "html">>
PrefPath == <<"/", "pref">>
DashHtmlPath == <<"/", "dash", ".", "html">>
LoginPath == <<"/", "login">>
IndexHtmlPath == <<"/", "index", ".", "html">>
MissingPath == <<"/", "nothing", ".", "html">>

\* the paths of the app.get routes modelled; a route matches the path as sent
RoutePaths == {SettingsPath, SettingsHtmlPath, PrefPath, DashHtmlPath, LoginPath}

\* decodeURIComponent, as serve-static applies it to the path before it
\* looks for the file
decodeURIComponent(path) ==
    [i \in 1..Len(path) |-> IF path[i] = "%2E" THEN "." ELSE path[i]]

\* the files of ../pages, by their path under the static root
PagesDir == {[path |-> SettingsHtmlPath, file |-> "settings.html"],
             [path |-> <<"/", "pref", ".", "html">>, file |-> "pref.html"],
             [path |-> DashHtmlPath, file |-> "dash.html"],
             [path |-> <<"/", "login", ".", "html">>, file |-> "login.html"],
             [path |-> IndexHtmlPath, file |-> "index.html"]}

\* app.use(express.static("../pages")), mounted after every route: it gets
\* the requests no route matched, and answers 404 when no file has the path
ExpressStatic(path, cookie) ==
    LET found == {f \in PagesDir : f.path = decodeURIComponent(path)}
    IN /\ Idle
       /\ path \notin RoutePaths
       /\ req' = Request("GET static", cookie, Undefined, Undefined, Undefined,
                         Undefined, TRUE)
       /\ UNCHANGED <<users, secret, now, jar, loggedOut>>
       /\ IF found = {} THEN res' = Json(404, "Not Found")
          ELSE \E f \in found :
                  res' = [NoRes EXCEPT !.status = 200, !.sendFile = f.file]

\* app.post("/api/preferences", requireAuth, ...)
PostApiPreferences(cookie, preferences, storeOk) ==
    LET g == requireAuth(cookie, now)
        ran == [g.res EXCEPT !.handlerRuns = 1, !.user = g.user]
    IN /\ Idle
       /\ req' = Request("POST /api/preferences", cookie, Undefined, Undefined,
                         Undefined, preferences, storeOk)
       /\ UNCHANGED <<secret, now, jar, loggedOut>>
       /\ IF ~g.next THEN res' = g.res /\ users' = users
          ELSE IF TypeOf(preferences) # "object"
          THEN /\ res' = [ran EXCEPT !.status = 400,
                                     !.error = "Invalid preferences format"]
               /\ users' = users
          ELSE IF g.user.id = 0
          THEN /\ res' = [ran EXCEPT !.status = 401, !.error = "not logged in"]
               /\ users' = users
          ELSE IF ~storeOk
          THEN /\ res' = [ran EXCEPT !.status = 500, !.error = "Server error"]
               /\ users' = users
          ELSE /\ res' = [ran EXCEPT !.status = 200,
                                     !.message = "Preferences updated successfully"]
               /\ users' = SetPreferences(users, g.user.id, preferences)

\* app.post('/api/updateUsr', requireAuth, ...)
PostApiUpdateUsr(cookie, username, preferences, storeOk) ==
    LET g == requireAuth(cookie, now)
        ran == [g.res EXCEPT !.handlerRuns = 1, !.user = g.user]
        hasUsername == IsString(username) /\ trim(username.v) # <<>>
        hasPreferences == ~Falsy(preferences) /\ TypeOf(preferences) = "object"
        name == trim(username.v)
        named == IF hasUsername THEN SetUsername(users, g.user.id, name) ELSE users
        updated == IF hasPreferences
                   THEN SetPreferences(named, g.user.id, preferences) ELSE named
    IN /\ Idle
       /\ req' = Request("POST /api/updateUsr", cookie, username, Undefined,
                         Undefined, preferences, storeOk)
       /\ UNCHANGED <<secret, now, jar, loggedOut>>
       /\ IF ~g.next THEN res' = g.res /\ users' = users
          ELSE IF g.user.id = 0
          THEN /\ res' = [ran EXCEPT !.status = 401, !.error = "not logged in"]
               /\ users' = users
          ELSE IF ~hasUsername /\ ~hasPreferences
          THEN /\ res' = [ran EXCEPT !.status = 400,
                                     !.error = "No valid fields to update"]
               /\ users' = users
          ELSE IF ~storeOk \/ (hasUsername /\ DuplicateUsername(users, g.user.id, name))
          THEN /\ res' = [ran EXCEPT !.status = 500, !.error = "Server error"]
               /\ users' = users
          ELSE /\ users' = updated
               /\ res' = [ran EXCEPT
                    !.status = 200,
                    !.message = "User updated successfully",
                    !.setCookie = IF hasUsername /\ secret # NoSecret
                                  THEN jwtSign(g.user.id, name, secret, now)
                                  ELSE Absent,
                    !.username = IF hasUsername THEN Str(name)
                                 ELSE Str(g.user.username),
                    !.preferences = IF hasPreferences THEN preferences
                                    ELSE Undefined]

\* app.get("/logout", requireAuth, ...)
GetLogout(cookie) ==
    LET g == requireAuth(cookie, now)
        ran == [g.res EXCEPT !.handlerRuns = 1, !.user = g.user]
    IN /\ Idle
       /\ req' = Request("GET /logout", cookie, Undefined, Undefined, Undefined,
                         Undefined, TRUE)
       /\ UNCHANGED <<users, secret, now, jar>>
       /\ IF ~g.next THEN res' = g.res /\ loggedOut' = loggedOut
          ELSE /\ res' = [ran EXCEPT !.status = 302, !.redirect = "/",
                                     !.clearCookie = TRUE]
               /\ loggedOut' = loggedOut \cup {cookie}

\* The client receives the response; its browser keeps the cookie the response
\* sets, beside or in place of an older one, and drops it when told to clear it.
Deliver ==
    /\ ~Idle
    /\ req' = NoReq
    /\ res' = NoRes
    /\ \/ jar' = jar
       \/ res.clearCookie /\ jar' = jar \ {req.cookie}
       \/ /\ res.setCookie.kind = "jwt"
          /\ \/ jar' = {res.setCookie}
             \/ Cardinality(jar) < MaxJar /\ jar' = jar \cup {res.setCookie}
    /\ UNCHANGED <<users, secret, now, loggedOut>>

\* time passes between requests
Tick ==
    /\ Idle
    /\ now < MaxTime
    /\ now' = now + 1
    /\ UNCHANGED <<users, secret, jar, req, res, loggedOut>>

(* ------------------------------- inputs -------------------------------- *)

\* a JWT signed with a key that is not the server's, never expired
Forged == jwtSign(1, <<"b", "o", "b">>, OtherKey, MaxTime)

Cookies == {Absent, Empty, Malformed, Forged} \cup jar

Usernames == {Num7, Str(<<"a", "l">>), Str(<<"b", "o", "b">>),
              Str(<<"B", "o", "b">>), Str(<<"a", "m", "y", " ">>)}

Passwords == {Num7, Str(<<"s", "h", "o", "r", "t">>),
              Str(<<"s", "e", "c", "r", "e", "t">>)}

Emails == {Undefined, Str(<<"a", "@", "b">>), Str(<<"a", "@", "b", ".", "c">>),
           Str(<<"A", "@", "b", ".", "c">>), Str(<<"d", "@", "e", ".", "f">>)}

Preferences == {Undefined, TeamObject}

\* body.preferences of the preferences route and of the profile update
PreferenceInputs == {Undefined, Null, ArrayValue, Num7, TeamObject}

\* body.username of the profile update
NewUsernames == {Undefined, Str(<<" ">>), Str(<<"B", "o", "b">>),
                 Str(<<"a", "m", "y">>)}

\* the requests of the profile specification: registrations that pass
\* validation, with or without a preferences field, and the login of "bob"
Bob == Str(<<"b", "o", "b">>)
Secret6 == Str(<<"s", "e", "c", "r", "e", "t">>)
ProfileCookies == {Absent} \cup jar
ProfileUsernames == {Bob, Str(<<"B", "o", "b">>)}
ProfileEmails == {Str(<<"a", "@", "b", ".", "c">>), Str(<<"d", "@", "e", ".", "f">>)}
ProfilePreferences == {Undefined, Null}

(* ---------------------------- specification ---------------------------- *)

Init ==
    /\ users = <<>>
    /\ secret \in {NoSecret, ServerKey}
    /\ now = 0
    /\ jar = {}
    /\ req = NoReq
    /\ res = NoRes
    /\ loggedOut = {}

Next ==
    \/ /\ Idle
       /\ \E c \in Cookies, u \in Usernames, p \in Passwords, ok \in BOOLEAN :
              PostApiLogin(c, u, p, ok)
    \/ /\ Idle
       /\ \E c \in Cookies, u \in Usernames, p \in Passwords, e \in Emails,
             pr \in Preferences, ok \in BOOLEAN :
              PostApiUser(c, u, p, e, pr, ok)
    \/ \E c \in Cookies, ok \in BOOLEAN : GetApiMe(c, ok)
    \/ \E c \in Cookies, ok \in BOOLEAN : GetSettings(c, ok)
    \/ \E c \in Cookies : GetLogin(c)
    \/ Deliver
    \/ Tick

Spec == Init /\ [][Next]_vars

\* Accounts and their mutation: registration, login, the preferences route,
\* the profile update and the current-user read, at one instant.
NextProfile ==
    \/ /\ Idle
       /\ \E c \in ProfileCookies, u \in ProfileUsernames, e \in ProfileEmails,
             pr \in ProfilePreferences, ok \in BOOLEAN :
              PostApiUser(c, u, Secret6, e, pr, ok)
    \/ \E c \in ProfileCookies, ok \in BOOLEAN : PostApiLogin(c, Bob, Secret6, ok)
    \/ /\ Idle
       /\ \E c \in ProfileCookies, pr \in PreferenceInputs, ok \in BOOLEAN :
              PostApiPreferences(c, pr, ok)
    \/ /\ Idle
       /\ \E c \in ProfileCookies, u \in NewUsernames, pr \in PreferenceInputs,
             ok \in BOOLEAN :
              PostApiUpdateUsr(c, u, pr, ok)
    \/ \E c \in ProfileCookies, ok \in BOOLEAN : GetApiMe(c, ok)
    \/ Deliver

SpecProfile == Init /\ [][NextProfile]_vars

\* Sessions and logout: one account, every kind of cookie, over time.
NextSession ==
    \/ \E c \in Cookies :
           PostApiUser(c, Bob, Secret6, Str(<<"a", "@", "b", ".", "c">>),
                       Undefined, TRUE)
    \/ \E c \in Cookies : PostApiLogin(c, Bob, Secret6, TRUE)
    \/ \E c \in Cookies : GetLogout(c)
    \/ \E c \in Cookies : GetApiMe(c, TRUE)
    \/ \E c \in Cookies : GetSettings(c, TRUE)
    \/ \E c \in Cookies : GetLogin(c)
    \/ Deliver
    \/ Tick

SpecSession == Init /\ [][NextSession]_vars

\* the paths requested from the static fallback
StaticPaths == {SettingsHtmlPath, SettingsEscapedPath, IndexHtmlPath, MissingPath}

\* Pages: one account, every kind of cookie, the gated and the anonymous-only
\* pages under their canonical and extension-qualified paths, the static files.
NextPages ==
    \/ \E c \in Cookies :
           PostApiUser(c, Bob, Secret6, Str(<<"a", "@", "b", ".", "c">>),
                       Undefined, TRUE)
    \/ \E c \in Cookies : PostApiLogin(c, Bob, Secret6, TRUE)
    \/ \E c \in Cookies, ok \in BOOLEAN : GetSettings(c, ok)
    \/ \E c \in Cookies, ok \in BOOLEAN : GetPref(c, ok)
    \/ \E c \in Cookies : GetSettingsHtml(c)
    \/ \E c \in Cookies : GetDashHtml(c)
    \/ \E c \in Cookies : GetLogin(c)
    \/ \E c \in Cookies, p \in StaticPaths : ExpressStatic(p, c)
    \/ Deliver
    \/ Tick

SpecPages == Init /\ [][NextPages]_vars

(* ------------------------- request classification --------------------- *)

RequireAuthRoutes == {"GET /api/me", "POST /api/preferences",
                      "POST /api/updateUsr", "GET /logout"}
RequireAuthPageRoutes == {"GET /settings", "GET /pref", "GET /settings.html"}
ReverseAuthRoutes == {"POST /api/login", "POST /api/user"}
ReverseAuthPageRoutes == {"GET /login"}

\* The pending request carries no token, one that verification accepted, or
\* one that verification threw on (bad signature, malformed, expired).
TokenAbsent == NoToken(req.cookie)
TokenVerified == secret # NoSecret /\ jwtVerify(req.cookie, secret, now)
TokenRejected == ~TokenAbsent /\ secret # NoSecret /\ ~jwtVerify(req.cookie, secret, now)
TokenIdentity == [id |-> req.cookie.userId, username |-> req.cookie.username]

(* -------------------------------- C1 ----------------------------------- *)

\* C1: with a secret configured, a request to a route behind requireAuth is
\* answered 401 Unauthorized without running the handler when it has no auth
\* cookie; has the cookie cleared and is answered 401 without running the
\* handler when its token fails verification; and runs the handler exactly
\* once, with req.user the token's {id, username}, when the token verifies.
\* The handler never runs without a token that verified.
C1_RequireAuth ==
    (req.route \in RequireAuthRoutes /\ secret # NoSecret) =>
        /\ TokenAbsent =>
              /\ res.status = 401 /\ res.error = "Unauthorized"
              /\ res.handlerRuns = 0
        /\ TokenRejected =>
              /\ res.clearCookie
              /\ res.status = 401 /\ res.error = "Unauthorized"
              /\ res.handlerRuns = 0
        /\ TokenVerified =>
              /\ res.handlerRuns = 1
              /\ res.user = TokenIdentity
        /\ res.handlerRuns > 0 => TokenVerified

\* a verified token reached the handler of /api/me, which answered for its user
C1_Witness ==
    /\ req.route = "GET /api/me"
    /\ TokenVerified
    /\ res.handlerRuns = 1
    /\ res.user = TokenIdentity
    /\ res.status = 200

(* -------------------------------- C2 ----------------------------------- *)

\* C2: a request to a page behind requireAuthPage is redirected to /login when
\* it has no cookie; has the cookie cleared and is redirected to /login when
\* its token is expired or otherwise fails verification; and has the handler
\* invoked with the token's (id, username) attached when the token verifies.
\* The handler is not invoked in the first two cases.
C2_RequireAuthPage ==
    req.route \in RequireAuthPageRoutes =>
        /\ TokenAbsent =>
              /\ res.status = 302 /\ res.redirect = "/login"
              /\ res.handlerRuns = 0
        /\ TokenRejected =>
              /\ res.clearCookie
              /\ res.status = 302 /\ res.redirect = "/login"
              /\ res.handlerRuns = 0
        /\ TokenVerified =>
              /\ res.handlerRuns = 1
              /\ res.user = TokenIdentity
        /\ res.handlerRuns > 0 => TokenVerified

\* an expired token of the server's own signing was cleared and sent to /login
C2_Witness ==
    /\ req.route = "GET /settings"
    /\ req.cookie.kind = "jwt"
    /\ req.cookie.key = secret
    /\ req.cookie.exp <= now
    /\ res.clearCookie
    /\ res.redirect = "/login"
    /\ res.handlerRuns = 0

(* -------------------------------- C3 ----------------------------------- *)

\* C3: a login or register request (behind reverseAuth) proceeds to the handler
\* when it has no token; has the cookie cleared and proceeds to the handler
\* when its token is invalid or expired; and is rejected with "Already logged
\* in" when its token is valid, the handler not run and the store untouched.
C3_ReverseAuth ==
    [][req'.route \in ReverseAuthRoutes =>
          /\ TokenAbsent' => res'.handlerRuns = 1 /\ ~res'.clearCookie
          /\ TokenRejected' => res'.handlerRuns = 1 /\ res'.clearCookie
          /\ TokenVerified' =>
                /\ res'.status = 400 /\ res'.error = "Already logged in"
                /\ res'.handlerRuns = 0
                /\ users' = users
                /\ res'.setCookie = Absent]_vars

\* a registration that would have been accepted was rejected as logged in
C3_Witness ==
    /\ req.route = "POST /api/user"
    /\ TokenVerified
    /\ validate(req.username, req.password, req.email) = NoError
    /\ req.storeOk
    /\ ~DuplicateKey(users, [username |-> toLowerCase(req.username.v),
                             email |-> toLowerCase(req.email.v)])
    /\ res.status = 400
    /\ res.error = "Already logged in"

(* -------------------------------- C4 ----------------------------------- *)

\* C4: a request to a page behind reverseAuthPage is redirected to / without
\* invoking the handler when its cookie is valid, and has the handler invoked
\* when it has no cookie.
C4_ReverseAuthPage ==
    req.route \in ReverseAuthPageRoutes =>
        /\ TokenVerified =>
              /\ res.status = 302 /\ res.redirect = "/"
              /\ res.handlerRuns = 0
        /\ TokenAbsent => res.handlerRuns = 1

\* a logged-in visitor of /login was sent home
C4_Witness ==
    /\ req.route = "GET /login"
    /\ TokenVerified
    /\ res.redirect = "/"
    /\ res.handlerRuns = 0

(* -------------------------------- C5 ----------------------------------- *)

TextUsernames == {u \in Usernames : IsString(u)}
TextPasswords == {p \in Passwords : IsString(p)}

\* no record has this username
Nonexistent(u) == \A i \in 1..Len(users) : users[i].username # u.v

\* a record has this username, and p is not its password
WrongPassword(u, p) ==
    \E i \in 1..Len(users) :
        /\ users[i].username = u.v
        /\ users[i].password # encryptPassword(p.v)

\* C6: in every store state, for all textual usernames and passwords, loginUser
\* with a nonexistent username and loginUser with an existing username and a
\* wrong password return the identical failure: passed is false, the message
\* is the same, and there is no token.
C6_NonEnumeration ==
    \A u1 \in TextUsernames, u2 \in TextUsernames :
        \A p1 \in TextPasswords, p2 \in TextPasswords :
            (Nonexistent(u1) /\ WrongPassword(u2, p2)) =>
                LET a == loginUser(users, u1, p1, TRUE, now)
                    b == loginUser(users, u2, p2, TRUE, now)
                IN /\ a = b
                   /\ ~a.threw /\ ~a.passed
                   /\ a.chocolateChipCookie = Absent

\* a login with a stored username and a wrong password was answered, while
\* some other username tried is in no record
C6_Witness ==
    /\ req.route = "POST /api/login"
    /\ res.handlerRuns = 1
    /\ req.storeOk
    /\ IsString(req.username) /\ IsString(req.password)
    /\ WrongPassword(req.username, req.password)
    /\ \E u \in TextUsernames : Nonexistent(u)
    /\ res.status = 401
    /\ res.error = "Invalid username or password"

(* -------------------------------- C7 ----------------------------------- *)

\* C7: a login whose username or password is not textual is rejected with the
\* same generic "Invalid username or password" message as a bad credential.
C7_Claim ==
    (/\ req.route = "POST /api/login"
     /\ res.handlerRuns = 1
     /\ (~IsString(req.username) \/ ~IsString(req.password))) =>
        /\ res.status = 401
        /\ res.error = "Invalid username or password"

(* -------------------------------- C8 ----------------------------------- *)

\* C8: once a registration has inserted its record, a login with the username
\* and password that were submitted succeeds (secret configured, store up),
\* and the token it issues verifies and carries the userId of that record.
C8_Claim ==
    [][(/\ req'.route = "POST /api/user"
        /\ Len(users') = Len(users) + 1
        /\ secret # NoSecret) =>
          LET login == loginUser(users', req'.username, req'.password, TRUE, now)
          IN /\ ~login.threw
             /\ login.passed
             /\ jwtVerify(login.chocolateChipCookie, secret, now)
             /\ login.chocolateChipCookie.userId = users'[Len(users')].id]_vars

(* -------------------------------- C9 ----------------------------------- *)

UsernameRule(u) == IsString(u) /\ Len(u.v) >= 3
PasswordRule(p) == IsString(p) /\ Len(p.v) >= 6
EmailRule(e) == IsString(e) /\ emailRegexTest(e.v)

\* C9: a registration that reaches the handler is validated in the order
\* username (string, length >= 3), password (string, length >= 6), email
\* (matches local@domain.tld); the first rule that fails gives the message of
\* the 400 response, and the store is left unchanged.
C9_ValidationOrder ==
    [][(req'.route = "POST /api/user" /\ res'.handlerRuns = 1) =>
          /\ ~UsernameRule(req'.username) =>
                /\ res'.status = 400
                /\ res'.error = "Username must be at least 3 characters long."
                /\ users' = users
          /\ (UsernameRule(req'.username) /\ ~PasswordRule(req'.password)) =>
                /\ res'.status = 400
                /\ res'.error = "Password must be at least 6 characters long."
                /\ users' = users
          /\ (/\ UsernameRule(req'.username) /\ PasswordRule(req'.password)
              /\ ~EmailRule(req'.email)) =>
                /\ res'.status = 400
                /\ res'.error = "Invalid email address."
                /\ users' = users]_vars

\* a registration failing the password and the email rule was answered with
\* the password message
C9_Witness ==
    /\ req.route = "POST /api/user"
    /\ res.handlerRuns = 1
    /\ UsernameRule(req.username)
    /\ ~PasswordRule(req.password)
    /\ ~EmailRule(req.email)
    /\ res.status = 400
    /\ res.error = "Password must be at least 6 characters long."

(* -------------------------------- C10 ---------------------------------- *)

\* no record has the username or the email this registration would store
NoCollision(db, username, email) ==
    \A i \in 1..Len(db) :
        /\ db[i].username # toLowerCase(username.v)
        /\ db[i].email # toLowerCase(email.v)

\* C10: a registration with valid input that collides with no record, with a
\* secret configured and the store healthy, is answered 201 with the userId of
\* the record it inserted, and sets the auth cookie to a token for that record.
C10_Claim ==
    [][(/\ req'.route = "POST /api/user"
        /\ res'.handlerRuns = 1
        /\ UsernameRule(req'.username) /\ PasswordRule(req'.password)
        /\ EmailRule(req'.email)
        /\ NoCollision(users, req'.username, req'.email)
        /\ secret # NoSecret
        /\ req'.storeOk) =>
          /\ res'.status = 201
          /\ Len(users') = Len(users) + 1
          /\ res'.userId = users'[Len(users')].id
          /\ res'.setCookie.kind = "jwt"
          /\ res'.setCookie.userId = users'[Len(users')].id]_vars

(* -------------------------------- C11 ---------------------------------- *)

MutatingRoutes == {"POST /api/user", "POST /api/preferences", "POST /api/updateUsr"}

\* C11: a register, preferences or profile-update request that is answered with
\* an error (status 4xx or 5xx) leaves the store exactly as it was; a register
\* request answered 400 leaves no new record.
C11_Claim ==
    [][(req'.route \in MutatingRoutes /\ res'.status >= 400) =>
          users' = users]_vars

(* -------------------------------- C12 ---------------------------------- *)

\* no two records have the same username ignoring case, nor the same email
UniqueAccounts(db) ==
    \A i \in 1..Len(db) : \A j \in 1..Len(db) :
        i # j => /\ toLowerCase(db[i].username) # toLowerCase(db[j].username)
                 /\ db[i].email # db[j].email

\* C12: after every step the usernames of the store are pairwise different
\* ignoring case and its emails pairwise different, and a registration with
\* valid input whose username (ignoring case) or email is that of a record is
\* answered with the already-exists message and inserts nothing.
C12_Claim ==
    [][/\ UniqueAccounts(users')
       /\ (/\ req'.route = "POST /api/user"
           /\ res'.handlerRuns = 1
           /\ req'.storeOk
           /\ validate(req'.username, req'.password, req'.email) = NoError
           /\ \E i \in 1..Len(users) :
                 \/ toLowerCase(users[i].username) = toLowerCase(req'.username.v)
                 \/ users[i].email = toLowerCase(req'.email.v)) =>
             /\ res'.error = "Username or email already exists."
             /\ users' = users]_vars

(* -------------------------------- C13 ---------------------------------- *)

\* C13: in every reachable store, every username is lowercase and at least 3
\* characters long, and every email is lowercase.
C13_Claim ==
    \A i \in 1..Len(users) :
        /\ users[i].username = toLowerCase(users[i].username)
        /\ Len(users[i].username) >= 3
        /\ users[i].email = toLowerCase(users[i].email)

(* -------------------------------- C14 ---------------------------------- *)

\* a JSON object: not absent, null, a scalar or an array
IsJsonObject(x) == x.t = "object"

\* C14: an authenticated request to the preferences route whose
\* body.preferences is not a JSON object is answered 400 and updates nothing.
C14_Claim ==
    [][(/\ req'.route = "POST /api/preferences"
        /\ res'.handlerRuns = 1
        /\ ~IsJsonObject(req'.preferences)) =>
          /\ res'.status = 400
          /\ users' = users]_vars

(* -------------------------------- C15 ---------------------------------- *)

\* C15: in every reachable store, the preferences of every record are a JSON
\* object, never absent, null, an array or a scalar.
C15_Claim ==
    \A i \in 1..Len(users) : IsJsonObject(users[i].preferences)

(* -------------------------------- C16 ---------------------------------- *)

\* the profile update just answered applied a new username
Renamed(rq, rs) ==
    /\ rq.route = "POST /api/updateUsr"
    /\ rs.status = 200
    /\ IsString(rq.username) /\ trim(rq.username.v) # <<>>

\* C16: a profile update that changes the username sets an auth cookie whose
\* token verifies and carries the caller's userId and the new username; the
\* token the request came with is still accepted by requireAuth and by
\* requireAuthPage, with its old identity, at every time before its expiry,
\* in the store as the rename left it.
C16_RenameReissues ==
    Renamed(req, res) =>
        /\ res.setCookie.kind = "jwt"
        /\ jwtVerify(res.setCookie, secret, now)
        /\ res.setCookie.userId = req.cookie.userId
        /\ res.setCookie.username = trim(req.username.v)
        /\ \A t \in now..MaxTime :
              t < req.cookie.exp =>
                 /\ requireAuth(req.cookie, t).next
                 /\ requireAuth(req.cookie, t).user = TokenIdentity
                 /\ requireAuthPage(req.cookie, t).next
                 /\ requireAuthPage(req.cookie, t).user = TokenIdentity

\* after a rename, a request with the token issued before it reached a handler
\* behind requireAuth, although the record of its userId has another username
C16_Witness ==
    /\ req.route = "GET /api/me"
    /\ TokenVerified
    /\ res.handlerRuns = 1
    /\ res.user = TokenIdentity
    /\ \E i \in 1..Len(users) :
          /\ users[i].id = req.cookie.userId
          /\ users[i].username # req.cookie.username

(* -------------------------------- C17 ---------------------------------- *)

\* body.username is present and well-typed: a non-empty string
WellTypedUsername(u) == IsString(u) /\ u.v # <<>>

\* the record with this id
RecordOf(db, id) == CHOOSE r \in {db[i] : i \in 1..Len(db)} : r.id = id

\* C17: an authenticated profile update applies exactly the fields that are a
\* non-empty string username and a JSON-object preferences, and leaves every
\* other field of every record unchanged; with no such field it is answered 400
\* and the store is unchanged.
C17_Claim ==
    [][(req'.route = "POST /api/updateUsr" /\ res'.handlerRuns = 1) =>
          /\ Len(users') = Len(users)
          /\ \A i \in 1..Len(users) :
                /\ users'[i].id = users[i].id
                /\ users'[i].email = users[i].email
                /\ users'[i].password = users[i].password
                /\ users'[i].createdAt = users[i].createdAt
                /\ ~WellTypedUsername(req'.username) =>
                      users'[i].username = users[i].username
                /\ ~IsJsonObject(req'.preferences) =>
                      users'[i].preferences = users[i].preferences
          /\ (~WellTypedUsername(req'.username) /\ ~IsJsonObject(req'.preferences)) =>
                res'.status = 400 /\ users' = users
          /\ res'.status = 200 =>
                LET r == RecordOf(users', req'.cookie.userId)
                IN /\ WellTypedUsername(req'.username) =>
                         r.username = trim(req'.username.v)
                   /\ IsJsonObject(req'.preferences) =>
                         r.preferences = req'.preferences]_vars

(* -------------------------------- C18 ---------------------------------- *)

\* C18: a preferences or profile-update request with a verified token of userId
\* X changes no record whose id is not X, and adds and removes none.
C18_OwnRecordOnly ==
    [][(/\ req'.route \in {"POST /api/preferences", "POST /api/updateUsr"}
        /\ TokenVerified') =>
          /\ Len(users') = Len(users)
          /\ \A i \in 1..Len(users) :
                users[i].id # req'.cookie.userId => users'[i] = users[i]]_vars

\* a preferences request whose token names a username that now belongs to
\* another record replaced the preferences of the caller's record only
C18_Witness ==
    /\ req.route = "POST /api/preferences"
    /\ TokenVerified
    /\ res.status = 200
    /\ \E i \in 1..Len(users) : \E j \in 1..Len(users) :
          /\ users[i].id = req.cookie.userId
          /\ users[i].preferences = req.preferences
          /\ users[j].id # req.cookie.userId
          /\ users[j].username = req.cookie.username
          /\ users[j].preferences # req.preferences

(* -------------------------------- C19 ---------------------------------- *)

\* C19: a token that a logout response has cleared and that still verifies
\* (signature and expiry) is accepted by requireAuth and requireAuthPage, the
\* handler running with its identity, is rejected as "Already logged in" by
\* reverseAuth and is redirected to / by reverseAuthPage.
C19_LogoutDoesNotRevoke ==
    (req.cookie \in loggedOut /\ TokenVerified) =>
        /\ req.route \in RequireAuthRoutes \cup RequireAuthPageRoutes =>
              /\ res.handlerRuns = 1
              /\ res.user = TokenIdentity
        /\ req.route \in ReverseAuthRoutes =>
              /\ res.status = 400 /\ res.error = "Already logged in"
              /\ res.handlerRuns = 0
        /\ req.route \in ReverseAuthPageRoutes =>
              /\ res.status = 302 /\ res.redirect = "/"
              /\ res.handlerRuns = 0

\* a token that was logged out was presented again and /api/me answered for it
C19_Witness ==
    /\ req.route = "GET /api/me"
    /\ req.cookie \in loggedOut
    /\ res.handlerRuns = 1
    /\ res.status = 200
    /\ res.user = TokenIdentity

(* -------------------------------- C20 ---------------------------------- *)

\* C20: every request to the logout route, whatever its auth cookie, is
\* answered with the cookie cleared and a success (a 200 or a redirect), never
\* an error.
C20_Claim ==
    req.route = "GET /logout" =>
        /\ res.clearCookie
        /\ res.status \in {200, 302}
        /\ res.error = ""

(* -------------------------------- C21 ---------------------------------- *)

\* the pages served to logged-in users only
GatedFiles == {"settings.html", "pref.html", "dash.html"}

\* C21: whatever the path of the request (canonical, extension-qualified, or
\* one that falls through to the static files), the content of a gated page is
\* sent only in answer to a request whose token verified.
C21_Claim ==
    res.sendFile \in GatedFiles => TokenVerified

(* -------------------------------- C22 ---------------------------------- *)

ApiRoutes == {"POST /api/login", "POST /api/user", "POST /api/preferences",
              "POST /api/updateUsr", "GET /api/me"}

\* what the failures underneath the routes say of themselves
FailureDetails == {"store error", "Error creating user: store error",
                   "Err creating auth token", "result is not defined"}

\* C22: every request whose handler ran on an API route is answered, and the
\* answer to a store failure or a runtime failure (a missing signing secret)
\* carries no detail of the failure underneath.
C22_Claim ==
    (req.route \in ApiRoutes /\ res.handlerRuns = 1) =>
        /\ res.status # 0
        /\ res.error \notin FailureDetails

(* -------------------------------- C23 ---------------------------------- *)

\* C23: a GET of an anonymous-only page with an auth cookie that is invalid or
\* expired has the cookie cleared and is served the page in that response,
\* not redirected to home.
C23_Claim ==
    (req.route \in ReverseAuthPageRoutes /\ TokenRejected) =>
        /\ res.clearCookie
        /\ res.status = 200
        /\ res.sendFile = "login.html"
        /\ res.redirect = ""

(* -------------------------------- C24 ---------------------------------- *)

\* C24: a current-user request with a verified token of userId X is answered
\* 401, or 200 with the username and the preferences of the record whose id is
\* X, never with those of another record.
C24_Claim ==
    (req.route = "GET /api/me" /\ TokenVerified /\ req.storeOk) =>
        \/ res.status = 401
        \/ /\ res.status = 200
           /\ \E i \in 1..Len(users) :
                 /\ users[i].id = req.cookie.userId
                 /\ res.username = Str(users[i].username)
                 /\ res.preferences =
                        IF users[i].preferences.t \in {"undefined", "null"}
                        THEN EmptyObject ELSE users[i].preferences

====
